---- MODULE Spec2Model ----
(***************************************************************************)
(* Model of the AccessAI client core:                                      *)
(*   - HearingAssistant (src/components/VisualAssistant.tsx:526-755): the  *)
(*     duplex live session, its playback scheduler (nextStartTimeRef,      *)
(*     sourcesRef) and its turn accumulator (currentInput, currentOutput,  *)
(*     transcript);                                                        *)
(*   - retryTask (src/components/VisualAssistant.tsx:30-42);               *)
(*   - VisualAssistant (src/components/VisualAssistant.tsx:57-324): the    *)
(*     capture stabilizer (getStabilizedFrame) and the capture flow        *)
(*     (captureAndAnalyze) with its remote and local paths.                *)
(*                                                                         *)
(* Time is counted in integer ticks of the output audio clock.  Text is a  *)
(* sequence of one-character strings, so that concatenation and trim() are *)
(* computed and not assumed.                                               *)
(***************************************************************************)
EXTENDS Integers, Sequences, FiniteSets, TLC

(* ------------------------------ bounds --------------------------------- *)
MaxSessions == 3
MaxPlaybackSessions == 1
MaxMsgs == 2
MaxClock == 1
MaxFails == 4
MaxBudget == 4
MaxSamples == 3
MaxStabilizerCaptures == 1
MaxCaptures == 2
MaxFlowCaptures == 1
MaxSends == 2
MaxFilterCalls == 2
SampleGrid == 1000
MaxRecognizers == 3
MaxAcquisitions == 2

(* --------------------------- program constants ------------------------- *)
DefaultMaxRetries == 2
\* DEFAULT_PREFERENCES.speechRate (1.0), doubled
DefaultSpeechRate2 == 2

VARIABLES
  \* HearingAssistant: React state
  isListening, transcript, currentInput, currentOutput,
  \* HearingAssistant: refs
  sessionRef, outCtx, nextStartTime, sources,
  \* environment of the live session
  sess, ctxClosed, clock, pending, msgCount, speechRate2,
  \* observation of the playback scheduler and the turn accumulator
  started, everInterrupted, obs, uncaught,
  \* HearingAssistant: what each startSession acquired (the microphone
  \* stream, the ScriptProcessorNode), the node ref,
  \* and whether the component is mounted
  dev, scriptProcessorRef, hearingMounted,
  \* HearingAssistant: the audioprocess events of the ScriptProcessorNodes
  frames,
  \* retryTask
  rPc, attempt, invocations, delaysWaited, failN, maxRetries, rOutcome,
  \* VisualAssistant: React state, and the values the handlers closed over
  isOnline, isProcessing, isStabilizing, stabilityLevel, resultText, rendered,
  \* VisualAssistant: the elements, the camera, the motion canvas's content
  mounted, cameraOn, motionCanvas,
  \* what the device last started to speak, and the finished capture that
  \* the shown result comes from
  speech, lastCapture,
  \* the captures in flight: each one's position and closure
  cap,
  \* VisualAssistant: the SpeechRecognition objects its effect has created
  voice,
  \* Assistant: its React state and the onSend calls in flight
  assistant,
  \* a KalmanFilter object (x, p, q, r) and its latest filter() call
  kalman,
  \* a sample on its way through the PCM encoder and decoder
  pcm,
  \* the getUserMedia calls for the camera and for the microphone
  acq

hearingVars == <<isListening, transcript, currentInput, currentOutput,
                 sessionRef, outCtx, nextStartTime, sources,
                 sess, ctxClosed, clock, pending, msgCount, speechRate2,
                 started, everInterrupted, obs, uncaught,
                 dev, scriptProcessorRef, hearingMounted, frames>>
deviceVars == <<dev, scriptProcessorRef, hearingMounted, frames>>
retryVars == <<rPc, attempt, invocations, delaysWaited, failN, maxRetries,
               rOutcome>>
visualVars == <<isOnline, isProcessing, isStabilizing, stabilityLevel,
                resultText, rendered, mounted, cameraOn, motionCanvas, speech,
                lastCapture, cap, voice>>
\* Assistant, a KalmanFilter under test, a sample through the PCM codec, the
\* acquisitions of the two devices
restVars == <<assistant, kalman, pcm, acq>>
vars == <<hearingVars, retryVars, visualVars, restVars>>

Max(a, b) == IF a >= b THEN a ELSE b
Min(a, b) == IF a <= b THEN a ELSE b

(* ------------------------------ text ----------------------------------- *)
RECURSIVE TrimLeft(_)
TrimLeft(s) ==
  IF s = <<>> THEN s
  ELSE IF Head(s) = " " THEN TrimLeft(Tail(s)) ELSE s

RECURSIVE TrimRight(_)
TrimRight(s) ==
  IF s = <<>> THEN s
  ELSE IF s[Len(s)] = " " THEN TrimRight(SubSeq(s, 1, Len(s) - 1)) ELSE s

\* String.prototype.trim
Trim(s) == TrimRight(TrimLeft(s))

(* --------------------------- live session ------------------------------ *)
Sessions == 1..Max(MaxSessions, MaxPlaybackSessions)

\* audioBuffer.duration of an inbound chunk, in clock ticks
Durations == {2, 4}

\* preferences.speechRate, doubled: 0.5x, 1x and 2x (Settings slider 0.5..2.0)
SpeechRates2 == {1, 2, 4}

\* transcription fragments carried by a message
Frags == {<<>>, <<" ">>, <<"H", "i">>}

\* serverContent of one message: inputTranscription.text, outputTranscription.text,
\* the chunk's duration (0: no modelTurn audio), interrupted, turnComplete.
\* An absent transcription field and an empty fragment are both <<>>: the
\* handler leaves the buffer as it is in either case (prev + '' = prev).
Messages ==
  [inT : Frags, outT : Frags, audio : {0} \cup Durations,
   interrupted : BOOLEAN, turnComplete : BOOLEAN]

\* messages of the audio path: chunks and interruptions
AudioMessages ==
  { m \in Messages : m.inT = <<>> /\ m.outT = <<>> /\ ~m.turnComplete }

\* messages without a chunk: fragments, interruptions, turn completion
LogMessages ==
  { m \in Messages : m.audio = 0 }

\* messages of the transcript path: fragments and turn completion
TextMessages ==
  { m \in Messages : ~m.interrupted /\ m.audio = 0 }

\* what the latest step did: whether it ran the interrupted branch (and how
\* many live sources that stopped), whether it ran the turnComplete branch, and
\* for which session's handler (0: none); how many calls of stopSession
\* in a row the latest steps were (0, 1, or 2 for two and more); and whether
\* it was a handler that ended with an exception
NoObs == [interrupted |-> FALSE, stopped |-> 0, turn |-> FALSE, by |-> 0,
          stops |-> 0, failed |-> FALSE]

\* audioBuffer.duration / preferences.speechRate
EffectiveDuration(d) == (2 * d) \div speechRate2

\* NonBlank without the trim
NonEmptyOnly(log) == SelectSeq(log, LAMBDA t : t.text # <<>>)

\* .filter(t => t.text.trim() !== '')
NonBlank(log) == SelectSeq(log, LAMBDA t : Trim(t.text) # <<>>)

\* TurnEntries with the produced entry first
TurnEntriesSwapped(s) ==
  << [text |-> sess[s].capOut, speaker |-> "model"],
     [text |-> sess[s].capIn, speaker |-> "user"] >>

\* the two entries a turn-complete builds, from the handler's closure
TurnEntries(s) ==
  << [text |-> sess[s].capIn, speaker |-> "user"],
     [text |-> sess[s].capOut, speaker |-> "model"] >>

\* a flush that keeps the entries of the latest turn only
FlushTranscriptLatest(log, s) == NonBlank(TurnEntries(s))

\* setTranscript(prev => [...prev, user, model].filter(...))
FlushTranscript(log, s) == NonBlank(log \o TurnEntries(s))

\* what a startSession that has not run holds: no stream, no node.  Its two
\* contexts are the ones behind audioContextRef and outputAudioContextRef
\* while outCtx is this start; ctxClosed tells whether they are closed
NoDevices == [stream |-> "none", node |-> "none"]

\* no ScriptProcessorNode yet.  running: the nodes whose AudioContext is
\* rendering; queued: the nodes with an audioprocess event dispatched by the
\* audio thread and not yet handled; last: the latest sendRealtimeInput call,
\* the session start it belongs to (0: none yet) and whether stopSession had
\* run between the dispatch of its event and the call
NoFrames ==
  [running |-> {}, queued |-> {}, last |-> [by |-> 0, afterStop |-> FALSE]]

NumStarted == Cardinality({ i \in Sessions : sess[i].status # "none" })

\* the component not listening, with the log and the turn buffers given
HearingAtRest(rate2, log, bi, bo) ==
  /\ isListening = FALSE
  /\ transcript = log
  /\ currentInput = bi
  /\ currentOutput = bo
  /\ sessionRef = 0
  /\ outCtx = 0
  /\ nextStartTime = 0
  /\ sources = {}
  /\ sess = [i \in Sessions |-> [status |-> "none", capIn |-> <<>>, capOut |-> <<>>]]
  /\ ctxClosed = FALSE
  /\ clock = 0
  /\ pending = {}
  /\ msgCount = 0
  /\ speechRate2 = rate2
  /\ started = <<>>
  /\ everInterrupted = FALSE
  /\ obs = NoObs
  /\ uncaught = FALSE
  /\ dev = [i \in Sessions |-> NoDevices]
  /\ scriptProcessorRef = 0
  /\ hearingMounted = TRUE
  /\ frames = NoFrames

\* the component after its mount
InitHearing(rate2) == HearingAtRest(rate2, <<>>, <<>>, <<>>)

\* no getUserMedia call yet.  Per device: the user's requests for it (the
\* mount included), the getUserMedia calls made, and whether the latest
\* event of the device is a rejection that left it unavailable with no other
\* call under way (failed); for the camera, the calls not yet settled
NoAcquisitions ==
  [camRequests |-> 0, camAttempts |-> 0, camPending |-> 0, camFailed |-> FALSE,
   micRequests |-> 0, micAttempts |-> 0, micFailed |-> FALSE]

\* a catch block that calls getUserMedia again after a rejection
AcquiresAgainWhenDenied(denied) == denied

\* whether the catch block calls getUserMedia again, given that the call
\* was rejected: `catch (err) { console.error(...) }` in startCamera and in
\* startSession
AcquiresAgain(denied) == FALSE

\* the getUserMedia calls a catch block makes after a rejection
CallsAfterDenial == IF AcquiresAgain(TRUE) THEN 1 ELSE 0

\* toggleListening (not listening) -> startSession with the microphone
\* granted: the callbacks close over the currentInput / currentOutput of the
\* render that made the call
StartSession(limit) ==
  /\ hearingMounted
  /\ ~isListening
  /\ NumStarted < limit
  /\ LET n == NumStarted + 1 IN
       sess' = [sess EXCEPT ![n] = [status |-> "connecting",
                                    capIn |-> currentInput,
                                    capOut |-> currentOutput]]
  /\ outCtx' = NumStarted + 1
  /\ ctxClosed' = FALSE
  /\ clock' = 0
  /\ dev' = [dev EXCEPT ![NumStarted + 1] =
               [stream |-> "live", node |-> "none"]]
  /\ obs' = NoObs
  /\ acq' = [acq EXCEPT !.micRequests = @ + 1, !.micAttempts = @ + 1,
                        !.micFailed = FALSE]
  /\ UNCHANGED <<isListening, transcript, currentInput, currentOutput,
                 sessionRef, nextStartTime, sources, pending, msgCount,
                 speechRate2, started, everInterrupted>>
  /\ UNCHANGED <<uncaught, scriptProcessorRef, hearingMounted, frames,
                 retryVars, visualVars, assistant, kalman, pcm>>

\* onopen, and the resolution of sessionPromise that follows it
OnOpen(s) ==
  /\ sess[s].status = "connecting"
  /\ sess' = [sess EXCEPT ![s].status = "open"]
  /\ isListening' = TRUE
  /\ sessionRef' = s
  /\ dev' = [dev EXCEPT ![s].node = "connected"]
  /\ scriptProcessorRef' = s
  /\ frames' = [frames EXCEPT !.running = IF ctxClosed THEN @ ELSE @ \cup {s}]
  /\ obs' = NoObs
  /\ UNCHANGED <<transcript, currentInput, currentOutput, outCtx,
                 nextStartTime, sources, ctxClosed, clock, pending, msgCount,
                 speechRate2, started, everInterrupted>>
  /\ UNCHANGED <<uncaught, hearingMounted, retryVars, visualVars, restVars>>

\* a call made without the try / catch: what it throws escapes
TryCatchMissing(throws) == throws

\* `try { sessionRef.current.close(); } catch(e) {}` and
\* `try { source.stop(); } catch(e) {}`: whether an exception escapes, given
\* that the call throws
TryCatch(throws) == FALSE

\* what stopSession does to a microphone stream: nothing; `stream` is a
\* local of startSession, and no track of it is ever stopped
ReleaseStream(stream) == stream

\* the body of stopSession: closing the context ends the rendering of every
\* node created on it; an event already dispatched stays in the event loop,
\* and the handler stays on the node.  closer is the session whose callback runs it
\* (0 for the user).  Its session.close() and source.stop() calls are taken
\* to throw, as they may on a closed socket or on a source that has ended.
StopSessionBody(closer) ==
  /\ sess' = [i \in Sessions |->
               IF i = closer /\ sess[i].status = "closing"
                 THEN [status |-> "closed", capIn |-> <<>>, capOut |-> <<>>]
               ELSE IF i = sessionRef /\ sess[i].status = "open"
                 THEN [sess[i] EXCEPT !.status = "closing"]
               ELSE sess[i]]
  /\ sessionRef' = 0
  /\ ctxClosed' = (outCtx # 0)
  /\ sources' = {}
  /\ nextStartTime' = 0
  /\ started' = <<>>
  /\ isListening' = FALSE
  /\ currentInput' = <<>>
  /\ currentOutput' = <<>>
  /\ uncaught' = (uncaught \/ ((sessionRef # 0 \/ sources # {})
                               /\ TryCatch(TRUE)))
  /\ dev' = [i \in Sessions |->
              [stream |-> ReleaseStream(dev[i].stream),
               node   |-> IF i = scriptProcessorRef THEN "disconnected"
                          ELSE dev[i].node]]
  /\ obs' = [NoObs EXCEPT !.stopped = Cardinality(sources),
                          !.stops = Min(2, obs.stops + 1)]
  /\ UNCHANGED <<transcript, outCtx, clock, pending, msgCount, speechRate2,
                 everInterrupted>>
  /\ frames' = [frames EXCEPT !.running = {}]
  /\ UNCHANGED <<scriptProcessorRef, hearingMounted, retryVars, visualVars, restVars>>

\* the audio thread has filled the buffer of the node of start s and
\* dispatches its audioprocess event to the main thread
FrameQueued(s) ==
  /\ s \in frames.running
  /\ s \notin frames.queued
  /\ frames' = [frames EXCEPT !.queued = @ \cup {s}]
  /\ obs' = NoObs
  /\ UNCHANGED <<isListening, transcript, currentInput, currentOutput,
                 sessionRef, outCtx, nextStartTime, sources, sess, ctxClosed,
                 clock, pending, msgCount, speechRate2, started,
                 everInterrupted>>
  /\ UNCHANGED <<uncaught, dev, scriptProcessorRef, hearingMounted, retryVars,
                 visualVars, restVars>>

\* onaudioprocess runs for a dispatched event: createPcmBlob, then
\* `sessionPromise.then(session => session.sendRealtimeInput(...))`, whose
\* callback runs at once, the promise having resolved with onopen
FrameHandled(s) ==
  /\ s \in frames.queued
  /\ frames' = [frames EXCEPT
                  !.queued = @ \ {s},
                  !.last = [by |-> s, afterStop |-> s \notin frames.running]]
  /\ obs' = NoObs
  /\ UNCHANGED <<isListening, transcript, currentInput, currentOutput,
                 sessionRef, outCtx, nextStartTime, sources, sess, ctxClosed,
                 clock, pending, msgCount, speechRate2, started,
                 everInterrupted>>
  /\ UNCHANGED <<uncaught, dev, scriptProcessorRef, hearingMounted, retryVars,
                 visualVars, restVars>>

\* toggleListening (listening) -> stopSession
UserStop ==
  /\ hearingMounted
  /\ isListening
  /\ StopSessionBody(0)

\* onclose: () => stopSession()
OnClose(s) ==
  /\ sess[s].status = "closing"
  /\ StopSessionBody(s)

\* onerror: (e) => { ...; stopSession(); }
OnError(s) ==
  /\ sess[s].status = "open"
  /\ StopSessionBody(s)

\* startSession's `catch (err)`: getAI or live.connect throws, or
\* sessionPromise rejects, after getUserMedia and both contexts; the error is
\* logged
StartFailed(s) ==
  /\ sess[s].status = "connecting"
  /\ sess' = [sess EXCEPT ![s].status = "failed"]
  /\ obs' = NoObs
  /\ UNCHANGED <<isListening, transcript, currentInput, currentOutput,
                 sessionRef, outCtx, nextStartTime, sources, ctxClosed, clock,
                 pending, msgCount, speechRate2, started, everInterrupted>>
  /\ UNCHANGED <<uncaught, deviceVars, retryVars, visualVars, restVars>>

\* toggleListening (not listening) -> startSession with the microphone
\* denied or missing: getUserMedia rejects before anything is created, the
\* catch logs the error
StartDenied ==
  /\ hearingMounted
  /\ ~isListening
  /\ acq.micRequests < NumStarted + MaxAcquisitions
  /\ acq' = [acq EXCEPT
               !.micRequests = @ + 1,
               !.micAttempts = @ + 1 + CallsAfterDenial,
               !.micFailed = \A i \in Sessions : sess[i].status # "connecting"]
  /\ obs' = NoObs
  /\ UNCHANGED <<isListening, transcript, currentInput, currentOutput,
                 sessionRef, outCtx, nextStartTime, sources, sess, ctxClosed,
                 clock, pending, msgCount, speechRate2, started,
                 everInterrupted>>
  /\ UNCHANGED <<uncaught, deviceVars, retryVars, visualVars, assistant,
                 kalman, pcm>>

\* App switches to another tab while the session is listening:
\* HearingAssistant is unmounted; it registers no effect cleanup
HearingUnmount ==
  /\ hearingMounted
  /\ isListening
  /\ hearingMounted' = FALSE
  /\ obs' = NoObs
  /\ UNCHANGED <<isListening, transcript, currentInput, currentOutput,
                 sessionRef, outCtx, nextStartTime, sources, sess, ctxClosed,
                 clock, pending, msgCount, speechRate2, started,
                 everInterrupted>>
  /\ UNCHANGED <<uncaught, dev, scriptProcessorRef, frames, retryVars,
                 visualVars, restVars>>

ClearHistory ==
  /\ hearingMounted
  /\ transcript' = <<>>
  /\ currentInput' = <<>>
  /\ currentOutput' = <<>>
  /\ obs' = NoObs
  /\ UNCHANGED <<isListening, sessionRef, outCtx, nextStartTime, sources,
                 sess, ctxClosed, clock, pending, msgCount, speechRate2,
                 started, everInterrupted>>
  /\ UNCHANGED <<uncaught, deviceVars, retryVars, visualVars, restVars>>

\* the output AudioContext's currentTime advances while the context runs
Tick ==
  /\ outCtx # 0
  /\ ~ctxClosed
  /\ clock < MaxClock
  /\ clock' = clock + 1
  /\ obs' = NoObs
  /\ UNCHANGED <<isListening, transcript, currentInput, currentOutput,
                 sessionRef, outCtx, nextStartTime, sources, sess, ctxClosed,
                 pending, msgCount, speechRate2, started, everInterrupted>>
  /\ UNCHANGED <<uncaught, deviceVars, retryVars, visualVars, restVars>>

\* source 'ended' listener: sourcesRef.current.delete(source)
SourceEnded(i) ==
  /\ i \in sources
  /\ started[i].ctx = outCtx
  /\ clock >= Max(started[i].start, started[i].clockAtStart) + started[i].eff
  /\ sources' = sources \ {i}
  /\ obs' = NoObs
  /\ UNCHANGED <<isListening, transcript, currentInput, currentOutput,
                 sessionRef, outCtx, nextStartTime, sess, ctxClosed, clock,
                 pending, msgCount, speechRate2, started, everInterrupted>>
  /\ UNCHANGED <<uncaught, deviceVars, retryVars, visualVars, restVars>>

\* InterruptedCursor without the reset
InterruptedCursorKept(interrupted, nst) == nst

\* `if (interrupted) { ...; nextStartTimeRef.current = 0; }`
InterruptedCursor(interrupted, nst) == IF interrupted THEN 0 ELSE nst

\* the end of onmessage: the interrupted and turnComplete branches, applied
\* to the cursor nst, the live set src, the log lg and the turn buffers ci, co
\* that the handler has reached
HandlerTail(s, m, nst, src, lg, ci, co) ==
  /\ nextStartTime' = InterruptedCursor(m.interrupted, nst)
  /\ sources' = IF m.interrupted THEN {} ELSE src
  /\ started' = IF m.interrupted THEN <<>> ELSE lg
  /\ everInterrupted' = (everInterrupted \/ m.interrupted)
  /\ transcript' = IF m.turnComplete THEN FlushTranscript(transcript, s)
                                     ELSE transcript
  /\ currentInput' = IF m.turnComplete THEN <<>> ELSE ci
  /\ currentOutput' = IF m.turnComplete THEN <<>> ELSE co
  /\ obs' = [interrupted |-> m.interrupted,
             stopped |-> IF m.interrupted THEN Cardinality(src) ELSE 0,
             turn |-> m.turnComplete,
             by |-> IF m.interrupted \/ m.turnComplete THEN s ELSE 0,
             stops |-> 0, failed |-> FALSE]

\* a cursor that is set to the clock at every arrival
CursorAtArrivalNow(nst, now) == now

\* `nextStartTimeRef.current = Math.max(nextStartTimeRef.current,
\* ctx.currentTime)`
CursorAtArrival(nst, now) == Max(nst, now)

\* onmessage up to its await (or to its end, when the message has no chunk)
OnMessage(s, m) ==
  /\ sess[s].status = "open"
  /\ msgCount < MaxMsgs
  /\ msgCount' = msgCount + 1
  /\ LET ci == currentInput \o m.inT
         co == currentOutput \o m.outT
     IN IF m.audio # 0 /\ outCtx # 0
          THEN /\ currentInput' = ci
               /\ currentOutput' = co
               /\ nextStartTime' = CursorAtArrival(nextStartTime, clock)
               /\ pending' = pending \cup
                    {[id |-> msgCount + 1, sess |-> s, ctx |-> outCtx,
                      dur |-> m.audio, afterInt |-> everInterrupted,
                      interrupted |-> m.interrupted,
                      turnComplete |-> m.turnComplete]}
               /\ obs' = NoObs
               /\ UNCHANGED <<transcript, sources, started, everInterrupted>>
          ELSE /\ HandlerTail(s, m, nextStartTime, sources, started, ci, co)
               /\ UNCHANGED pending
  /\ UNCHANGED <<isListening, sessionRef, outCtx, sess, ctxClosed, clock,
                 speechRate2>>
  /\ UNCHANGED <<uncaught, deviceVars, retryVars, visualVars, restVars>>

\* decodeAudioData's promise for chunk p resolves: after any latency, and in
\* any order among the chunks being decoded
DecodeResolved(p) == p \in pending

\* the start time the handler gives to source.start
StartTime(nst, now) == nst

\* AdvanceCursor with the duration multiplied by the rate
AdvanceCursorTimesRate(nst, d) == nst + (d * speechRate2) \div 2

\* the cursor after the chunk has been scheduled
AdvanceCursor(nst, d) == nst + EffectiveDuration(d)

\* onmessage after `await decodeAudioData(...)`: create the source, start it
\* at the cursor, advance the cursor, register the source, then the
\* interrupted and turnComplete branches of the same message
DecodeDone(p) ==
  /\ DecodeResolved(p)
  /\ pending' = pending \ {p}
  /\ LET t == StartTime(nextStartTime, clock)
         lg == Append(started,
                 [id |-> p.id, start |-> t, eff |-> EffectiveDuration(p.dur),
                  clockAtStart |-> clock, ctx |-> p.ctx,
                  sameCtx |-> (p.ctx = outCtx), afterInt |-> p.afterInt])
     IN HandlerTail(p.sess, p, AdvanceCursor(nextStartTime, p.dur),
                    sources \cup {Len(lg)}, lg, currentInput, currentOutput)
  /\ UNCHANGED <<isListening, sessionRef, outCtx, sess, ctxClosed, clock,
                 msgCount, speechRate2>>
  /\ UNCHANGED <<uncaught, deviceVars, retryVars, visualVars, restVars>>

\* decodeAudioData's promise for chunk p rejects, or a call on the playback
\* device after it throws
DecodeRejected(p) == p \in pending

\* onmessage after a rejected `await decodeAudioData(...)`: the async handler
\* has no try / catch, so its promise rejects and the rest of the handler,
\* the interrupted and turnComplete branches included, does not run
DecodeFailed(p) ==
  /\ DecodeRejected(p)
  /\ pending' = pending \ {p}
  /\ obs' = [NoObs EXCEPT !.failed = TRUE, !.by = p.sess]
  /\ UNCHANGED <<isListening, transcript, currentInput, currentOutput,
                 sessionRef, outCtx, nextStartTime, sources, sess, ctxClosed,
                 clock, msgCount, speechRate2, started, everInterrupted>>
  /\ UNCHANGED <<uncaught, deviceVars, retryVars, visualVars, restVars>>

(* ------------------------------ retryTask ------------------------------ *)
InitRetry ==
  /\ rPc = "loop"
  /\ attempt = 0
  /\ invocations = 0
  /\ delaysWaited = 0
  /\ failN \in 0..MaxFails
  /\ maxRetries \in 0..MaxBudget
  /\ rOutcome = [kind |-> "none", of |-> 0]

\* the task under retryTask: its first failN invocations reject, the next
\* one fulfils; of is the invocation the value or the error comes from
TaskSucceedsAt(i) == i > failN

\* BudgetExhausted one attempt early
BudgetExhaustedEarly(a, budget) == a + 1 >= budget

\* BudgetExhausted that never rethrows
BudgetExhaustedNever(a, budget) == FALSE

\* `if (attempt === maxRetries) throw err`
BudgetExhausted(a, budget) == a = budget

\* while (attempt <= maxRetries) { try { return await task() ...
RetryInvoke ==
  /\ rPc = "loop"
  /\ IF attempt <= maxRetries
       THEN /\ invocations' = invocations + 1
            /\ rPc' = "task"
            /\ UNCHANGED rOutcome
       ELSE /\ rPc' = "thrown"
            /\ rOutcome' = [kind |-> "unexpected", of |-> 0]
            /\ UNCHANGED invocations
  /\ UNCHANGED <<attempt, delaysWaited, failN, maxRetries, hearingVars,
                 visualVars, restVars>>

\* the awaited task fulfils: return its value
RetryTaskFulfilled ==
  /\ rPc = "task"
  /\ TaskSucceedsAt(invocations)
  /\ rPc' = "returned"
  /\ rOutcome' = [kind |-> "value", of |-> invocations]
  /\ UNCHANGED <<attempt, invocations, delaysWaited, failN, maxRetries,
                 hearingVars, visualVars, restVars>>

\* a retry that does not wait: back to the loop at once
RetryPauseSkipped == "loop"

\* where a failed attempt that is to be retried goes:
\* `await new Promise(resolve => setTimeout(resolve, delay))`
RetryPause == "delay"

\* the awaited task rejects: rethrow on the last attempt, else count the
\* attempt and wait for the delay
RetryTaskRejected ==
  /\ rPc = "task"
  /\ ~TaskSucceedsAt(invocations)
  /\ IF BudgetExhausted(attempt, maxRetries)
       THEN /\ rPc' = "thrown"
            /\ rOutcome' = [kind |-> "error", of |-> invocations]
            /\ UNCHANGED attempt
       ELSE /\ attempt' = attempt + 1
            /\ rPc' = RetryPause
            /\ UNCHANGED rOutcome
  /\ UNCHANGED <<invocations, delaysWaited, failN, maxRetries, hearingVars,
                 visualVars, restVars>>

\* await new Promise(resolve => setTimeout(resolve, delay))
RetryDelayElapsed ==
  /\ rPc = "delay"
  /\ rPc' = "loop"
  /\ delaysWaited' = delaysWaited + 1
  /\ UNCHANGED <<attempt, invocations, failN, maxRetries, rOutcome,
                 hearingVars, visualVars, restVars>>

(* --------------------------- VisualAssistant --------------------------- *)
\* Times are milliseconds of Date.now().  A frame is uniform: one red-channel
\* level on every sampled pixel.  The filter runs in fixed point, with gain
\* and covariance in 1/KalmanUnit.  A stability is held in 1/StabilityUnit
\* of a percent, which keeps the comparison with 95 exact.
MAX_DURATION == 3000
SAMPLE_RATE == 80
STABILITY_THRESHOLD == 18000
\* `currentStability > 95 && timeElapsed > 400`
LockStability == 95
LockAfter == 400
\* `await new Promise(r => setTimeout(r, 400))` before resolve(bestFrame)
LockHold == 400
mSize == 64
gridSize == 4
\* the pixels one score reads: gridSize x gridSize blocks, each scanned with
\* stride 2 in x and in y
SampledPixels ==
  LET blockSize == mSize \div gridSize
  IN  gridSize * gridSize * (blockSize \div 2) * (blockSize \div 2)

KalmanUnit == 1000
\* KalmanFilter: p = 1.0, q = 0.1, r = 0.5
KalmanP0 == 1000
KalmanQ == 100
KalmanR == 500
\* minFilteredMotion = Infinity: above every filtered motion
Infinity == 1000000000
StabilityUnit == STABILITY_THRESHOLD \div 100

\* red-channel levels of the frames the camera delivers
Levels == {0, 2, 20}
\* a timer of a throttled page fires about once a second
ThrottledDelay == 1000
\* time between two samples: the timer's SAMPLE_RATE, or a throttled timer
SampleDelays == {SAMPLE_RATE, ThrottledDelay}
Modes == {"read", "summarize", "explain"}
Captures == 1..Max(MaxCaptures, Max(MaxFlowCaptures, MaxStabilizerCaptures))

Abs(a) == IF a >= 0 THEN a ELSE -a

\* a score that sums the frame's levels, not the differences
RawMotionScoreOfLevels(curr, prev) ==
  IF prev = -1 THEN 0 ELSE SampledPixels * curr

\* the block-difference sum over the sampled pixels; 0 without a previous
\* frame (prev = -1)
RawMotionScore(curr, prev) ==
  IF prev = -1 THEN 0 ELSE SampledPixels * Abs(curr - prev)

\* KalmanFilter.filter(measurement) on the state [x, p]
KalmanFilter(x, p, measurement) ==
  LET pp == p + KalmanQ
      k  == (pp * KalmanUnit) \div (pp + KalmanR)
  IN  [x |-> x + (k * (measurement - x)) \div KalmanUnit,
       p |-> ((KalmanUnit - k) * pp) \div KalmanUnit]

\* Math.max(0, Math.min(100, 100 - filteredMotion / STABILITY_THRESHOLD * 100))
Stability(filteredMotion) ==
  Max(0, Min(100 * StabilityUnit, 100 * StabilityUnit - filteredMotion))

\* canvas.toDataURL('image/jpeg', 0.9): header and payload; a canvas of width
\* 0 (no video frame) gives "data:," whose payload is empty.  The payload of
\* a real frame is named by the sample it was grabbed at; 0 is ''.
ToDataURL(hasFrame, n) ==
  IF hasFrame THEN <<"data:image/jpeg;base64", n>> ELSE <<"data:", 0>>

\* .split(',')[1]
GrabFrame(hasFrame, n) == ToDataURL(hasFrame, n)[2]

\* the closure of a capture at its request, before its first sample; and,
\* of its latest sample: the motion score (raw), the filtered motion before
\* it (wasF), whether its frame was identical to the one before (same); and
\* the lowest filtered motion of its samples so far with the frame grabbed
\* at the earliest sample that had it (lowF, lowFrame); and the number of
\* its checkMotion timers that are set and have not fired (ticks); and the
\* frame grabbed at its first sample (first)
NoCapture ==
  [pc |-> "none", mode |-> "read", online |-> FALSE,
   elapsed |-> 0, n |-> 0, kx |-> 0, kp |-> KalmanP0, prev |-> -1,
   minF |-> Infinity, best |-> 0, lastBelow |-> -1, frame |-> 0,
   offline |-> FALSE, att |-> 0, path |-> "none", why |-> "none",
   raw |-> 0, wasF |-> 0, same |-> FALSE, lowF |-> Infinity, lowFrame |-> 0,
   ticks |-> 0, first |-> 0]

\* no finished capture behind the shown result
NoLast == [path |-> "none", why |-> "none", mode |-> "read", ocr |-> FALSE]

\* the closure values of the render the handlers were created in
Rendering ==
  [isProcessing |-> isProcessing, isStabilizing |-> isStabilizing,
   isOnline |-> isOnline]

\* the component mounted, no capture requested; up is navigator.onLine
VisualMounted(up, camera) ==
  /\ mounted = TRUE
  /\ cameraOn = camera
  /\ motionCanvas = 0
  /\ isOnline = up
  /\ isProcessing = FALSE
  /\ isStabilizing = FALSE
  /\ stabilityLevel = 0
  /\ resultText = <<>>
  /\ rendered = [isProcessing |-> FALSE, isStabilizing |-> FALSE,
                 isOnline |-> up]
  /\ speech = "none"
  /\ lastCapture = NoLast
  /\ cap = <<>>

\* a browser without SpeechRecognition (`if (SpeechRecognition)` is false):
\* no recognizer is ever created.  last is the latest `end` event: the
\* recognizer it came to (0: none yet), whether a capture was stabilizing or
\* processing then, whether onend started the recognizer again, and how
\* many recognizers were listening when onend returned
NoEnd == [by |-> 0, busy |-> FALSE, restarted |-> FALSE, listening |-> 0]
NoRecognition == [supported |-> FALSE, recs |-> <<>>, last |-> NoEnd]

\* a recognizer the effect has just created and started; busy is the
\* `isProcessing || isStabilizing` of the render, which onend closes over
NewRecognition(busy) == [st |-> "started", busy |-> busy]

\* after the mount's effect in a browser with SpeechRecognition
RecognitionMounted ==
  [supported |-> TRUE, recs |-> <<NewRecognition(FALSE)>>, last |-> NoEnd]

\* the effect's cleanup: recognitionRef.current.stop(), on the recognizer
\* created last; a recognizer that is not listening ignores it
RecognitionCleanup(v) ==
  IF ~v.supported THEN v
  ELSE [v EXCEPT !.recs[Len(v.recs)].st =
                   IF @ = "started" THEN "stopping" ELSE @]

\* the effect after a render that changed captureAndAnalyze, isProcessing
\* or isStabilizing: the cleanup of the previous run, then a new recognizer,
\* stored in recognitionRef and started
RecognitionEffect(v, busy) ==
  IF ~v.supported THEN v
  ELSE [RecognitionCleanup(v) EXCEPT !.recs = Append(@, NewRecognition(busy))]

\* the recognizers that are listening
Listening(recs) == { r \in DOMAIN recs : recs[r].st = "started" }

\* right after the mount: online, the camera not started yet
VisualIdle == VisualMounted(TRUE, FALSE) /\ voice = NoRecognition

\* after startCamera has attached the stream
VisualReady(up) == VisualMounted(up, TRUE) /\ voice = NoRecognition

\* startCamera: the stream is attached and delivers frames
CameraStarted ==
  /\ mounted
  /\ ~cameraOn
  /\ cameraOn' = TRUE
  /\ UNCHANGED <<mounted, motionCanvas, isOnline, isProcessing, isStabilizing,
                 stabilityLevel, resultText, rendered, speech,
                 lastCapture, cap>>
  /\ UNCHANGED <<hearingVars, retryVars, restVars, voice>>

\* stopCamera: srcObject = null, the video has no frame (videoWidth 0)
StopCamera ==
  /\ mounted
  /\ cameraOn
  /\ cameraOn' = FALSE
  /\ UNCHANGED <<mounted, motionCanvas, isOnline, isProcessing, isStabilizing,
                 stabilityLevel, resultText, rendered, speech,
                 lastCapture, cap>>
  /\ UNCHANGED <<hearingVars, retryVars, restVars, voice>>

\* the mount effect, the restart button or the effect after toggleCamera
\* calls startCamera: stopCamera(), then getUserMedia is awaited
StartCamera ==
  /\ mounted
  /\ acq.camRequests < MaxAcquisitions
  /\ cameraOn' = FALSE
  /\ acq' = [acq EXCEPT !.camRequests = @ + 1, !.camAttempts = @ + 1,
                        !.camPending = @ + 1, !.camFailed = FALSE]
  /\ UNCHANGED <<mounted, motionCanvas, isOnline, isProcessing, isStabilizing,
                 stabilityLevel, resultText, rendered, speech,
                 lastCapture, cap, voice>>
  /\ UNCHANGED <<hearingVars, retryVars, assistant, kalman, pcm>>

\* startCamera's getUserMedia resolves: `if (videoRef.current) { srcObject =
\* stream; setIsCameraReady(true) }`
CameraGranted ==
  /\ acq.camPending > 0
  /\ cameraOn' = (cameraOn \/ mounted)
  /\ acq' = [acq EXCEPT !.camPending = @ - 1]
  /\ UNCHANGED <<mounted, motionCanvas, isOnline, isProcessing, isStabilizing,
                 stabilityLevel, resultText, rendered, speech,
                 lastCapture, cap, voice>>
  /\ UNCHANGED <<hearingVars, retryVars, assistant, kalman, pcm>>

\* startCamera's getUserMedia rejects: the catch logs the error
CameraDenied ==
  /\ acq.camPending > 0
  /\ acq' = [acq EXCEPT
               !.camPending = @ - 1 + CallsAfterDenial,
               !.camAttempts = @ + CallsAfterDenial,
               !.camFailed = (acq.camPending = 1 /\ ~cameraOn)]
  /\ UNCHANGED <<mounted, cameraOn, motionCanvas, isOnline, isProcessing,
                 isStabilizing, stabilityLevel, resultText, rendered, speech,
                 lastCapture, cap, voice>>
  /\ UNCHANGED <<hearingVars, retryVars, assistant, kalman, pcm>>

\* isCameraReady: set with the video's srcObject (lines 107-108) and reset
\* with it (stopCamera)
isCameraReady == cameraOn

\* App switches to another tab: the component is unmounted, its refs are
\* null, the cleanup of the recognition effect runs
Unmount ==
  /\ mounted
  /\ mounted' = FALSE
  /\ voice' = RecognitionCleanup(voice)
  /\ UNCHANGED <<cameraOn, motionCanvas, isOnline, isProcessing, isStabilizing,
                 stabilityLevel, resultText, rendered, speech,
                 lastCapture, cap>>
  /\ UNCHANGED <<hearingVars, retryVars, restVars>>

\* React commits a render: the handlers close over the current state, and
\* the recognition effect, whose dependencies changed, runs again
Rerender ==
  /\ mounted
  /\ rendered # Rendering
  /\ Len(voice.recs) < MaxRecognizers
  /\ rendered' = Rendering
  /\ voice' = RecognitionEffect(voice, isProcessing \/ isStabilizing)
  /\ UNCHANGED <<mounted, cameraOn, motionCanvas, isOnline, isProcessing,
                 isStabilizing, stabilityLevel, resultText, speech, lastCapture,
                 cap>>
  /\ UNCHANGED <<hearingVars, retryVars, restVars>>

\* `(currentStability > 95 && timeElapsed > 400) || timeElapsed >= MAX_DURATION`
LockOrTimeout(stability, timeElapsed) ==
  \/ stability > LockStability * StabilityUnit /\ timeElapsed > LockAfter
  \/ timeElapsed >= MAX_DURATION

\* a candidate that is also replaced by a sample of equal motion
TakesFrameOnTie(filteredMotion, minFilteredMotion, bestFrame) ==
  filteredMotion <= minFilteredMotion \/ bestFrame = 0

\* `if (filteredMotion < minFilteredMotion || !bestFrame)`
TakesFrame(filteredMotion, minFilteredMotion, bestFrame) ==
  filteredMotion < minFilteredMotion \/ bestFrame = 0

\* a checkMotion that sets its timer on both branches
TimersSetAlways(decided) == 1

\* the timers one run of checkMotion sets: `setTimeout(checkMotion,
\* SAMPLE_RATE)` in the else branch only, none once it has decided to resolve
TimersSet(decided) == IF decided THEN 0 ELSE 1

\* one run of checkMotion for the capture record k, on a frame of the given
\* level, d ms after the previous run: the record it leaves
CheckMotionRecord(k, curr, d) ==
  LET raw   == RawMotionScore(curr, k.prev)
      f     == KalmanFilter(k.kx, k.kp, raw)
      st    == Stability(f.x)
      frame == GrabFrame(cameraOn, k.n + 1)
      takes == TakesFrame(f.x, k.minF, k.best)
      t     == k.elapsed + d
      above == st > LockStability * StabilityUnit
      lower == f.x < k.lowF
      decided == LockOrTimeout(st, t)
  IN  [k EXCEPT !.n = @ + 1, !.kx = f.x, !.kp = f.p, !.prev = curr,
                !.raw = raw, !.wasF = k.kx,
                !.same = (k.prev # -1 /\ curr = k.prev),
                !.lowF = IF lower THEN f.x ELSE @,
                !.lowFrame = IF lower THEN frame ELSE @,
                !.minF = IF takes THEN f.x ELSE @,
                !.best = IF takes THEN frame ELSE @,
                !.elapsed = t,
                !.lastBelow = IF above THEN @ ELSE t,
                !.ticks = @ + TimersSet(decided),
                !.first = IF k.n = 0 THEN frame ELSE @,
                !.pc = IF decided THEN "holding" ELSE "sampling"]

\* the captures in flight with k as capture c: a new one when c is the
\* next index
Put(c, k) == IF c = Len(cap) + 1 THEN Append(cap, k) ELSE [cap EXCEPT ![c] = k]

\* checkMotion for capture c: returns at once when an element is gone, else
\* scores the frame, keeps the best one, and either locks or reschedules
CheckMotion(c, k, level, d) ==
  IF ~mounted
    THEN /\ cap' = Put(c, [k EXCEPT !.pc = "abandoned"])
         /\ UNCHANGED <<motionCanvas, stabilityLevel>>
    ELSE LET curr == IF cameraOn THEN level ELSE motionCanvas
             k2   == CheckMotionRecord(k, curr, d)
         IN  /\ motionCanvas' = curr
             /\ cap' = Put(c, k2)
             /\ stabilityLevel' =
                  IF k2.pc = "holding" THEN 100 * StabilityUnit
                  ELSE Stability(k2.kx)

\* captureAndAnalyze(mode) up to its first await: the guard on the rendered
\* busy flags, the state updates, and the first, synchronous checkMotion
Request(limit, mode, level) ==
  /\ Len(cap) < limit
  /\ mounted
  /\ ~rendered.isProcessing
  /\ ~rendered.isStabilizing
  /\ isStabilizing' = TRUE
  /\ resultText' = <<>>
  /\ CheckMotion(Len(cap) + 1,
                 [NoCapture EXCEPT !.pc = "sampling", !.mode = mode,
                                   !.online = rendered.isOnline,
                                   !.offline = ~isOnline],
                 level, 0)
  /\ lastCapture' = NoLast
  /\ UNCHANGED <<mounted, cameraOn, isOnline, isProcessing, rendered, speech>>
  /\ UNCHANGED <<hearingVars, retryVars, restVars, voice>>

\* setTimeout(checkMotion, SAMPLE_RATE) fires: the timer is spent and
\* checkMotion runs to its end
Sample(c, level, d) ==
  /\ c \in DOMAIN cap
  /\ cap[c].pc = "sampling"
  /\ d \in (IF cap[c].n < MaxSamples THEN SampleDelays ELSE {MAX_DURATION})
  /\ cap[c].ticks > 0
  /\ CheckMotion(c, [cap[c] EXCEPT !.ticks = @ - 1], level, d)
  /\ UNCHANGED <<mounted, cameraOn, isOnline, isProcessing, isStabilizing,
                 resultText, rendered, speech, lastCapture>>
  /\ UNCHANGED <<hearingVars, retryVars, restVars, voice>>

\* the LockHold timer fires: resolve(bestFrame)
LockHeld(c) ==
  /\ c \in DOMAIN cap
  /\ cap[c].pc = "holding"
  /\ cap' = [cap EXCEPT ![c].pc = "stabilized", ![c].frame = cap[c].best]
  /\ UNCHANGED <<mounted, cameraOn, motionCanvas, isOnline, isProcessing,
                 isStabilizing, stabilityLevel, resultText, rendered,
                 speech, lastCapture>>
  /\ UNCHANGED <<hearingVars, retryVars, restVars, voice>>

\* what onend does with its recognizer: `if (!isProcessing && !isStabilizing)
\* { try { recognition.start(); } catch(e) {} } else setIsVoiceActive(false)`,
\* on the flags of the render that created the recognizer
OnEndRestarts(busyAtRender) == ~busyAtRender

\* the `end` event of recognizer r: the service ended it (silence, an error)
\* or the stop() of a cleanup took effect; onend runs
RecognitionEnded(r) ==
  /\ r \in DOMAIN voice.recs
  /\ voice.recs[r].st \in {"started", "stopping"}
  /\ LET again == OnEndRestarts(voice.recs[r].busy)
         recs  == [voice.recs EXCEPT ![r].st =
                     IF again THEN "started" ELSE "ended"]
     IN  voice' = [voice EXCEPT
                     !.recs = recs,
                     !.last = [by |-> r,
                               busy |-> (isProcessing \/ isStabilizing),
                               restarted |-> again,
                               listening |-> Cardinality(Listening(recs))]]
  /\ UNCHANGED <<mounted, cameraOn, motionCanvas, isOnline, isProcessing,
                 isStabilizing, stabilityLevel, resultText, rendered, speech,
                 lastCapture, cap>>
  /\ UNCHANGED <<hearingVars, retryVars, restVars>>

(* ---------------- VisualAssistant: after the stabilizer ---------------- *)
\* A text is a sequence of one-character strings; a fixed phrase of the
\* program is one element of the sequence.
FallbackTag == "(Offline Fallback) "
BasicReadingLabel == "Offline Mode: Only basic reading is available. Text found: "
FailureMessage == <<"I couldn't process the image. Please try again.">>
NoTextFound == <<"No clear text found in the image.">>
\* what Tesseract.recognize finds in a frame
OcrTexts == {<<" ">>, <<"T">>}
\* what describeImage answers
RemoteTexts == {<<"D">>}

\* window 'online' / 'offline': setIsOnline(navigator.onLine)
NetworkChanged(up) ==
  /\ mounted
  /\ isOnline # up
  /\ isOnline' = up
  /\ cap' = [c \in DOMAIN cap |->
               IF up THEN [cap[c] EXCEPT !.offline = FALSE] ELSE cap[c]]
  /\ UNCHANGED <<mounted, cameraOn, motionCanvas, isProcessing, isStabilizing,
                 stabilityLevel, resultText, rendered, speech, lastCapture>>
  /\ UNCHANGED <<hearingVars, retryVars, restVars, voice>>

\* the captures in flight without capture c, in the order of their requests
Without(c) ==
  [i \in 1..(Len(cap) - 1) |-> IF i < c THEN cap[i] ELSE cap[i + 1]]

\* `finally`: the busy flags and the stability are reset; the capture is
\* over; ocr tells whether it ends with a text of the local OCR
Finally(c, ocr) ==
  /\ lastCapture' = [path |-> cap[c].path, why |-> cap[c].why,
                      mode |-> cap[c].mode, ocr |-> ocr]
  /\ isStabilizing' = FALSE
  /\ isProcessing' = FALSE
  /\ stabilityLevel' = 0
  /\ cap' = Without(c)

\* captureAndAnalyze resumes with the stabilized frame: the remote path when
\* the isOnline it closed over is true, else the local one
AfterStabilized(c) ==
  /\ c \in DOMAIN cap
  /\ cap[c].pc = "stabilized"
  /\ isStabilizing' = FALSE
  /\ isProcessing' = TRUE
  /\ cap' = [cap EXCEPT ![c] =
               IF cap[c].online
                 THEN [@ EXCEPT !.pc = "describe", !.att = 0, !.path = "remote"]
                 ELSE [@ EXCEPT !.pc = "ocr", !.path = "offline"]]
  /\ UNCHANGED <<mounted, cameraOn, motionCanvas, isOnline, stabilityLevel,
                 resultText, rendered, speech, lastCapture>>
  /\ UNCHANGED <<hearingVars, retryVars, restVars, voice>>

\* retryTask(describeImage) returns: setResultText(text), then
\* retryTask(generateSpeech) makes its first attempt
DescribeFulfilled(c, text) ==
  /\ c \in DOMAIN cap
  /\ cap[c].pc = "describe"
  /\ resultText' = text
  /\ lastCapture' = NoLast
  /\ cap' = [cap EXCEPT ![c].pc = "speech", ![c].att = 0]
  /\ UNCHANGED <<mounted, cameraOn, motionCanvas, isOnline, isProcessing,
                 isStabilizing, stabilityLevel, rendered, speech>>
  /\ UNCHANGED <<hearingVars, retryVars, restVars, voice>>

\* the position of retryTask's delay after a failed attempt of a remote call
DelayOf(pc) == IF pc = "describe" THEN "describeDelay" ELSE "speechDelay"

\* an attempt of describeImage or generateSpeech rejects: retryTask waits and
\* retries, or rethrows into `catch (apiError)`, which starts the local OCR
RemoteRejected(c) ==
  /\ c \in DOMAIN cap
  /\ cap[c].pc \in {"describe", "speech"}
  /\ cap' = [cap EXCEPT ![c] =
               IF BudgetExhausted(cap[c].att, DefaultMaxRetries)
                 THEN [@ EXCEPT !.pc = "ocr", !.path = "fallback",
                                !.why = cap[c].pc]
                 ELSE [@ EXCEPT !.pc = DelayOf(cap[c].pc), !.att = @ + 1]]
  /\ UNCHANGED <<mounted, cameraOn, motionCanvas, isOnline, isProcessing,
                 isStabilizing, stabilityLevel, resultText, rendered, speech, lastCapture>>
  /\ UNCHANGED <<hearingVars, retryVars, restVars, voice>>

\* retryTask's delay elapses: the next attempt of the remote call
RemoteDelayElapsed(c) ==
  /\ c \in DOMAIN cap
  /\ cap[c].pc \in {"describeDelay", "speechDelay"}
  /\ cap' = [cap EXCEPT ![c].pc =
               IF cap[c].pc = "describeDelay" THEN "describe" ELSE "speech"]
  /\ UNCHANGED <<mounted, cameraOn, motionCanvas, isOnline, isProcessing,
                 isStabilizing, stabilityLevel, resultText, rendered, speech, lastCapture>>
  /\ UNCHANGED <<hearingVars, retryVars, restVars, voice>>

\* retryTask(generateSpeech) returns: decodeBase64, then decodeAudioData is
\* awaited
SpeechFulfilled(c) ==
  /\ c \in DOMAIN cap
  /\ cap[c].pc = "speech"
  /\ cap' = [cap EXCEPT ![c].pc = "decode"]
  /\ UNCHANGED <<mounted, cameraOn, motionCanvas, isOnline, isProcessing,
                 isStabilizing, stabilityLevel, resultText, rendered, speech, lastCapture>>
  /\ UNCHANGED <<hearingVars, retryVars, restVars, voice>>

\* decodeAudioData resolves and the source is started, or it rejects into
\* `catch (apiError)`
AudioDecoded(c, ok) ==
  /\ c \in DOMAIN cap
  /\ cap[c].pc = "decode"
  /\ IF ok
       THEN /\ speech' = "remote"
            /\ Finally(c, FALSE)
       ELSE /\ cap' = [cap EXCEPT ![c].pc = "ocr", ![c].path = "fallback",
                                  ![c].why = "decode"]
            /\ UNCHANGED <<speech, lastCapture, isStabilizing, isProcessing,
                           stabilityLevel>>
  /\ UNCHANGED <<mounted, cameraOn, motionCanvas, isOnline, resultText,
                 rendered>>
  /\ UNCHANGED <<hearingVars, retryVars, restVars, voice>>

\* performOfflineOCR: `text.trim() || "No clear text found in the image."`
OfflineText(text) == IF Trim(text) = <<>> THEN NoTextFound ELSE Trim(text)

\* the display of a fallback result without its tag
FallbackDisplayUntagged(offlineText) == offlineText

\* `(Offline Fallback) ${offlineText}`
FallbackDisplay(offlineText) == <<FallbackTag>> \o offlineText

\* the offline branch's finalDisplay
OfflineDisplay(mode, offlineText) ==
  IF mode # "read" THEN <<BasicReadingLabel>> \o offlineText ELSE offlineText

\* performOfflineOCR resolves: the result is shown and spoken by the device
OcrFulfilled(c, text) ==
  /\ c \in DOMAIN cap
  /\ cap[c].pc = "ocr"
  /\ resultText' = IF cap[c].path = "fallback"
                     THEN FallbackDisplay(OfflineText(text))
                     ELSE OfflineDisplay(cap[c].mode, OfflineText(text))
  /\ speech' = "local"
  /\ Finally(c, TRUE)
  /\ UNCHANGED <<mounted, cameraOn, motionCanvas, isOnline, rendered>>
  /\ UNCHANGED <<hearingVars, retryVars, restVars, voice>>

\* performOfflineOCR rejects: the outer catch shows the failure message
OcrRejected(c) ==
  /\ c \in DOMAIN cap
  /\ cap[c].pc = "ocr"
  /\ resultText' = FailureMessage
  /\ Finally(c, FALSE)
  /\ UNCHANGED <<mounted, cameraOn, motionCanvas, isOnline, rendered, speech>>
  /\ UNCHANGED <<hearingVars, retryVars, restVars, voice>>

(* ------------------------------ Assistant ------------------------------ *)
\* what the user can have typed into the input field
AssistantInputs == {<<>>, <<" ">>, <<"q">>}
ErrorReply == <<"I'm sorry, I encountered an error processing that request.">>
\* response.text of chatWithGemini
Replies == {<<"R">>}

\* no onSend call in the latest step; else the input and the attachment the
\* call found
NoSendObs == [called |-> FALSE, input |-> <<>>, file |-> FALSE]

\* the component after its mount: the React state, the onSend calls in
\* flight, and the counts of calls accepted and of remote calls made
\* (geolocation, chatWithGemini)
AssistantIdle ==
  assistant = [messages |-> <<>>, input |-> <<>>, isSending |-> FALSE,
               useMaps |-> FALSE, attachedFile |-> FALSE, sends |-> <<>>,
               accepted |-> 0, remoteCalls |-> 0, obs |-> NoSendObs]

\* onChange: setInput(e.target.value)
SetInput(text) ==
  /\ assistant.input # text
  /\ assistant' = [assistant EXCEPT !.input = text, !.obs = NoSendObs]
  /\ UNCHANGED <<hearingVars, retryVars, visualVars, kalman, pcm, acq>>

\* handleFileUpload: the FileReader has loaded the file
HandleFileUpload ==
  /\ ~assistant.attachedFile
  /\ assistant' = [assistant EXCEPT !.attachedFile = TRUE, !.obs = NoSendObs]
  /\ UNCHANGED <<hearingVars, retryVars, visualVars, kalman, pcm, acq>>

\* the Maps toggle: setUseMaps(!useMaps)
ToggleMaps ==
  /\ assistant' = [assistant EXCEPT !.useMaps = ~@, !.obs = NoSendObs]
  /\ UNCHANGED <<hearingVars, retryVars, visualVars, kalman, pcm, acq>>

\* an onSend that sends whatever it finds
OnSendRejectsNothing(input, file) == FALSE

\* `if (!input && !attachedFile) return;`
OnSendRejects(input, file) == input = <<>> /\ ~file

\* onSend up to its first await, by the button or by Enter: the guard, the
\* user message, the flags, and the first remote call (getCurrentPosition
\* with the Maps tool, else chatWithGemini)
OnSend ==
  /\ assistant.accepted < MaxSends
  /\ LET a == assistant
         o == [called |-> TRUE, input |-> a.input, file |-> a.attachedFile]
     IN  assistant' =
           IF OnSendRejects(a.input, a.attachedFile)
             THEN [a EXCEPT !.obs = o]
             ELSE [a EXCEPT
                     !.messages = Append(@, [role |-> "user", text |-> a.input]),
                     !.input = <<>>,
                     !.isSending = TRUE,
                     !.sends = Append(@, [pc |-> IF a.useMaps THEN "geo"
                                                 ELSE "chat"]),
                     !.accepted = @ + 1,
                     !.remoteCalls = @ + 1,
                     !.obs = o]
  /\ UNCHANGED <<hearingVars, retryVars, visualVars, kalman, pcm, acq>>

\* the onSend calls in flight without call i
SendsWithout(i) ==
  [j \in 1..(Len(assistant.sends) - 1) |->
     IF j < i THEN assistant.sends[j] ELSE assistant.sends[j + 1]]

\* the end of onSend call i: the model message of the try or of the catch,
\* then `finally`
SendSettled(i, text) ==
  assistant' = [assistant EXCEPT
                  !.messages = Append(@, [role |-> "model", text |-> text]),
                  !.isSending = FALSE,
                  !.attachedFile = FALSE,
                  !.sends = SendsWithout(i),
                  !.obs = NoSendObs]

\* getCurrentPosition succeeds: chatWithGemini is called with the location
GeoResolved(i) ==
  /\ i \in DOMAIN assistant.sends
  /\ assistant.sends[i].pc = "geo"
  /\ assistant' = [assistant EXCEPT !.sends[i].pc = "chat",
                                    !.remoteCalls = @ + 1,
                                    !.obs = NoSendObs]
  /\ UNCHANGED <<hearingVars, retryVars, visualVars, kalman, pcm, acq>>

\* getCurrentPosition fails: `catch (err)`
GeoRejected(i) ==
  /\ i \in DOMAIN assistant.sends
  /\ assistant.sends[i].pc = "geo"
  /\ SendSettled(i, ErrorReply)
  /\ UNCHANGED <<hearingVars, retryVars, visualVars, kalman, pcm, acq>>

\* chatWithGemini returns
ChatFulfilled(i, text) ==
  /\ i \in DOMAIN assistant.sends
  /\ assistant.sends[i].pc = "chat"
  /\ SendSettled(i, text)
  /\ UNCHANGED <<hearingVars, retryVars, visualVars, kalman, pcm, acq>>

\* chatWithGemini rejects: `catch (err)`
ChatRejected(i) ==
  /\ i \in DOMAIN assistant.sends
  /\ assistant.sends[i].pc = "chat"
  /\ SendSettled(i, ErrorReply)
  /\ UNCHANGED <<hearingVars, retryVars, visualVars, kalman, pcm, acq>>

(* ------------------- KalmanFilter in exact arithmetic ------------------ *)
\* A number is a fraction [n, d] with d > 0, in lowest terms.
RECURSIVE Gcd(_, _)
Gcd(a, b) == IF b = 0 THEN a ELSE Gcd(b, a % b)

Frac(n, d) ==
  LET g == Gcd(IF n >= 0 THEN n ELSE -n, d)
  IN  [n |-> n \div g, d |-> d \div g]

\* the sum over the least common denominator
FracAdd(a, b) ==
  LET g == Gcd(a.d, b.d)
  IN  Frac(a.n * (b.d \div g) + b.n * (a.d \div g), (a.d \div g) * b.d)

FracNeg(a) == [n |-> -a.n, d |-> a.d]
FracSub(a, b) == FracAdd(a, FracNeg(b))

\* the product, with the common factors taken out before multiplying
FracMul(a, b) ==
  LET g1 == Gcd(IF a.n >= 0 THEN a.n ELSE -a.n, b.d)
      g2 == Gcd(IF b.n >= 0 THEN b.n ELSE -b.n, a.d)
      h1 == IF g1 = 0 THEN 1 ELSE g1
      h2 == IF g2 = 0 THEN 1 ELSE g2
  IN  Frac((a.n \div h1) * (b.n \div h2), (a.d \div h2) * (b.d \div h1))

\* a / b for b > 0
FracDiv(a, b) == FracMul(a, [n |-> b.d, d |-> b.n])

FracLess(a, b) ==
  LET g == Gcd(a.d, b.d) IN a.n * (b.d \div g) < b.n * (a.d \div g)

FracLeq(a, b) ==
  LET g == Gcd(a.d, b.d) IN a.n * (b.d \div g) <= b.n * (a.d \div g)

Zero == Frac(0, 1)
One == Frac(1, 1)

\* process and measurement noises: the program's q = 0.1 and r = 0.5, and
\* other positive values
FilterQs == {Frac(1, 10), Frac(1, 1), Frac(3, 1)}
FilterRs == {Frac(1, 2), Frac(1, 10), Frac(2, 1)}
\* measurements: motion scores, and values below the estimate
Measurements == {Frac(-2, 1), Frac(0, 1), Frac(1, 1), Frac(5, 1)}

\* a gain that divides by the covariance
KalmanGainInverted(p, r) == FracDiv(FracAdd(p, r), p)

\* `const k = this.p / (this.p + this.r)`
KalmanGain(p, r) == FracDiv(p, FracAdd(p, r))

\* KalmanFilter.filter(measurement) on the object f, in exact arithmetic:
\* the object after the call, with the gain the call used
KalmanFilterExact(f, measurement) ==
  LET p1 == FracAdd(f.p, f.q)
      k  == KalmanGain(p1, f.r)
  IN  [f EXCEPT !.x = FracAdd(f.x, FracMul(k, FracSub(measurement, f.x))),
                !.p = FracMul(FracSub(One, k), p1),
                !.calls = @ + 1,
                !.was = f.x,
                !.measurement = measurement,
                !.k = k]

\* `new KalmanFilter()` with noises q and r: x = 0, p = 1; and, of its
\* latest call, the estimate before it, the measurement and the gain
NewKalmanFilter(q, r) ==
  [x |-> Zero, p |-> One, q |-> q, r |-> r, calls |-> 0,
   was |-> Zero, measurement |-> Zero, k |-> Zero]

\* the program's filter, not called
KalmanIdle == kalman = NewKalmanFilter(Frac(1, 10), Frac(1, 2))

\* kFilter.filter(measurement)
Filter(measurement) ==
  /\ kalman.calls < MaxFilterCalls
  /\ kalman' = KalmanFilterExact(kalman, measurement)
  /\ UNCHANGED <<hearingVars, retryVars, visualVars, assistant, pcm, acq>>

(* ------------------------------ PCM codec ------------------------------ *)
\* A sample is x / SampleGrid; a coded sample is a signed 16-bit integer;
\* a decoded sample is int16 / 32768.
PcmScale == 32767
PcmDivisor == 32768
Int16Min == -32768
Int16Max == 32767

\* the integer nearest to n / d (d > 0), halves away from zero
RoundDiv(n, d) ==
  IF n >= 0 THEN (2 * n + d) \div (2 * d) ELSE -((2 * (-n) + d) \div (2 * d))

\* the integer part of n / d (d > 0), as a store into an Int16Array takes it
TruncDiv(n, d) == IF n >= 0 THEN n \div d ELSE -((-n) \div d)

\* how the encoder turns the scaled sample into an integer
Roundings == {"trunc", "round"}

\* createPcmBlob on one sample: scale by 32767, make it an integer, clamp
EncodeSample(x, rounding) ==
  LET scaled == IF rounding = "trunc" THEN TruncDiv(x * PcmScale, SampleGrid)
                ELSE RoundDiv(x * PcmScale, SampleGrid)
  IN  Max(Int16Min, Min(Int16Max, scaled))

\* no sample in the codec
PcmIdle == pcm = [pc |-> "idle", x |-> 0, int16 |-> 0]

\* samples of the input buffer: [-1, 1] and a little beyond
Samples == (-(SampleGrid + 100))..(SampleGrid + 100)

\* onaudioprocess: createPcmBlob(inputData)
Encode(rounding) ==
  /\ pcm.pc = "sample"
  /\ pcm' = [pcm EXCEPT !.pc = "encoded",
                        !.int16 = EncodeSample(pcm.x, rounding)]
  /\ UNCHANGED <<hearingVars, retryVars, visualVars, assistant, kalman, acq>>

\* decodeAudioData: the coded sample becomes int16 / 32768
Decode ==
  /\ pcm.pc = "encoded"
  /\ pcm' = [pcm EXCEPT !.pc = "decoded"]
  /\ UNCHANGED <<hearingVars, retryVars, visualVars, assistant, kalman, acq>>

(* --------------------------- specifications ---------------------------- *)
\* Assistant, the filter under test and the codec at rest
RestIdle ==
  /\ AssistantIdle
  /\ KalmanIdle
  /\ PcmIdle
  /\ acq = NoAcquisitions

\* retryTask at rest: the state the live-session specifications keep it in
RetryIdle ==
  /\ rPc = "idle"
  /\ attempt = 0
  /\ invocations = 0
  /\ delaysWaited = 0
  /\ failN = 0
  /\ maxRetries = DefaultMaxRetries
  /\ rOutcome = [kind |-> "none", of |-> 0]

\* the playback scheduler: sessions, chunks, interruptions, the clock
Init ==
  /\ \E r \in SpeechRates2 : InitHearing(r)
  /\ RetryIdle
  /\ VisualIdle
  /\ RestIdle

Next ==
  \/ StartSession(MaxPlaybackSessions)
  \/ \E s \in Sessions : OnOpen(s)
  \/ UserStop
  \/ \E s \in Sessions : OnClose(s)
  \/ \E s \in Sessions : OnError(s)
  \/ \E s \in Sessions, m \in AudioMessages : OnMessage(s, m)
  \/ \E p \in pending : DecodeDone(p)
  \/ Tick
  \/ \E i \in sources : SourceEnded(i)

Spec == Init /\ [][Next]_vars

\* the playback scheduler with chunks that fail to decode or to play
NextFault ==
  \/ Next
  \/ \E p \in pending : DecodeFailed(p)

SpecFault == Init /\ [][NextFault]_vars

\* the turn accumulator: fragments and turn completion
NextTurn ==
  \/ StartSession(MaxSessions)
  \/ \E s \in Sessions : OnOpen(s)
  \/ UserStop
  \/ \E s \in Sessions : OnClose(s)
  \/ \E s \in Sessions : OnError(s)
  \/ \E s \in Sessions, m \in TextMessages : OnMessage(s, m)
  \/ ClearHistory

InitTurn ==
  /\ InitHearing(DefaultSpeechRate2)
  /\ RetryIdle
  /\ VisualIdle
  /\ RestIdle

SpecTurn == InitTurn /\ [][NextTurn]_vars

\* the transcript log under the events of a session.  The component starts
\* as earlier sessions can leave it: not listening, the log holding the
\* entries of earlier turns, the turn buffers holding the fragments that the
\* handler of a session delivered after the last stop
PriorLogs ==
  { <<>>,
    << [text |-> <<"H", "i">>, speaker |-> "user"] >>,
    << [text |-> <<"H", "i">>, speaker |-> "user"],
       [text |-> <<"H", "i">>, speaker |-> "model"] >> }

InitLog ==
  /\ \E log \in PriorLogs, bi \in Frags, bo \in Frags :
       HearingAtRest(DefaultSpeechRate2, log, bi, bo)
  /\ RetryIdle
  /\ VisualIdle
  /\ RestIdle

NextLog ==
  \/ StartSession(MaxPlaybackSessions)
  \/ \E s \in Sessions : OnOpen(s)
  \/ UserStop
  \/ \E s \in Sessions : OnClose(s)
  \/ \E s \in Sessions : OnError(s)
  \/ \E s \in Sessions, m \in LogMessages : OnMessage(s, m)
  \/ ClearHistory

SpecLog == InitLog /\ [][NextLog]_vars

\* the device handles of the live session over every exit path
NextDevices ==
  \/ StartSession(MaxSessions)
  \/ \E s \in Sessions : OnOpen(s)
  \/ \E s \in Sessions : StartFailed(s)
  \/ UserStop
  \/ \E s \in Sessions : OnClose(s)
  \/ \E s \in Sessions : OnError(s)
  \/ HearingUnmount

SpecDevices == InitTurn /\ [][NextDevices]_vars

\* the acquisition of the camera and of the microphone: requests by the
\* user, getUserMedia granting or denying, sessions starting and stopping
NextAcquire ==
  \/ StartCamera
  \/ CameraGranted
  \/ CameraDenied
  \/ Unmount
  \/ StartSession(MaxPlaybackSessions)
  \/ StartDenied
  \/ \E s \in Sessions : OnOpen(s)
  \/ \E s \in Sessions : StartFailed(s)
  \/ UserStop
  \/ \E s \in Sessions : OnClose(s)
  \/ \E s \in Sessions : OnError(s)

SpecAcquire == InitTurn /\ [][NextAcquire]_vars

\* the microphone frames of the sessions: audioprocess events dispatched
\* and handled, sessions starting and stopping
NextFrames ==
  \/ StartSession(MaxSessions)
  \/ \E s \in Sessions : OnOpen(s)
  \/ UserStop
  \/ \E s \in Sessions : OnClose(s)
  \/ \E s \in Sessions : OnError(s)
  \/ \E s \in Sessions : FrameQueued(s)
  \/ \E s \in Sessions : FrameHandled(s)

SpecFrames == InitTurn /\ [][NextFrames]_vars

\* retryTask over every task and budget within the bounds
InitRetrySpec ==
  /\ InitHearing(DefaultSpeechRate2)
  /\ InitRetry
  /\ VisualIdle
  /\ RestIdle

NextRetry ==
  \/ RetryInvoke
  \/ RetryTaskFulfilled
  \/ RetryTaskRejected
  \/ RetryDelayElapsed

SpecRetry == InitRetrySpec /\ [][NextRetry]_vars

\* the capture stabilizer: one attempt's samples, lock and timeout
InitStabilizer ==
  /\ InitHearing(DefaultSpeechRate2)
  /\ RetryIdle
  /\ VisualIdle
  /\ RestIdle

NextStabilizer ==
  \/ \E level \in Levels : Request(MaxStabilizerCaptures, "read", level)
  \/ \E c \in Captures, level \in Levels, d \in SampleDelays \cup {MAX_DURATION} :
       Sample(c, level, d)
  \/ \E c \in Captures : LockHeld(c)
  \/ CameraStarted
  \/ StopCamera
  \/ Unmount
  \/ Rerender

SpecStabilizer == InitStabilizer /\ [][NextStabilizer]_vars

\* the same, with the timers of checkMotion and of the lock hold firing:
\* a pending setTimeout callback is eventually run
\* one attempt's scoring with the camera delivering frames and the timer on
\* time: frames of any level, the filter, the best frame
InitMotion ==
  /\ InitHearing(DefaultSpeechRate2)
  /\ RetryIdle
  /\ VisualReady(TRUE)
  /\ RestIdle

NextMotion ==
  \/ \E level \in Levels : Request(MaxStabilizerCaptures, "read", level)
  \/ \E c \in Captures, level \in Levels, d \in {SAMPLE_RATE, MAX_DURATION} :
       Sample(c, level, d)
  \/ \E c \in Captures : LockHeld(c)

SpecMotion == InitMotion /\ [][NextMotion]_vars

\* a dark frame and a bright one
TwoLevels == {0, 20}

\* one attempt's candidate frame, the camera starting and stopping under it
NextCandidate ==
  \/ \E level \in TwoLevels : Request(MaxStabilizerCaptures, "read", level)
  \/ \E c \in Captures, level \in TwoLevels, d \in {SAMPLE_RATE, MAX_DURATION} :
       Sample(c, level, d)
  \/ \E c \in Captures : LockHeld(c)
  \/ CameraStarted
  \/ StopCamera

SpecCandidate == InitStabilizer /\ [][NextCandidate]_vars

SpecStabilizerFair ==
  /\ SpecStabilizer
  /\ WF_vars(\E c \in Captures, level \in Levels,
                 d \in SampleDelays \cup {MAX_DURATION} : Sample(c, level, d))
  /\ WF_vars(\E c \in Captures : LockHeld(c))

\* the capture flow: requests by button or voice, renders, the network, the
\* remote calls under retryTask and the local engine; the stabilizer sees a
\* still scene through a throttled timer
InitCapture ==
  /\ InitHearing(DefaultSpeechRate2)
  /\ RetryIdle
  /\ \E up \in BOOLEAN : VisualReady(up)
  /\ RestIdle

NextCapture ==
  \/ \E mode \in Modes : Request(MaxCaptures, mode, 0)
  \/ \E c \in Captures : Sample(c, 0, ThrottledDelay)
  \/ \E c \in Captures : LockHeld(c)
  \/ \E c \in Captures : AfterStabilized(c)
  \/ \E c \in Captures, text \in RemoteTexts : DescribeFulfilled(c, text)
  \/ \E c \in Captures : RemoteRejected(c)
  \/ \E c \in Captures : RemoteDelayElapsed(c)
  \/ \E c \in Captures : SpeechFulfilled(c)
  \/ \E c \in Captures, ok \in BOOLEAN : AudioDecoded(c, ok)
  \/ \E c \in Captures, text \in OcrTexts : OcrFulfilled(c, text)
  \/ \E c \in Captures : OcrRejected(c)
  \/ \E up \in BOOLEAN : NetworkChanged(up)
  \/ Rerender

SpecCapture == InitCapture /\ [][NextCapture]_vars

\* the same flow, one capture at a time
NextFlow ==
  \/ \E mode \in Modes : Request(MaxFlowCaptures, mode, 0)
  \/ \E c \in Captures : Sample(c, 0, ThrottledDelay)
  \/ \E c \in Captures : LockHeld(c)
  \/ \E c \in Captures : AfterStabilized(c)
  \/ \E c \in Captures, text \in RemoteTexts : DescribeFulfilled(c, text)
  \/ \E c \in Captures : RemoteRejected(c)
  \/ \E c \in Captures : RemoteDelayElapsed(c)
  \/ \E c \in Captures : SpeechFulfilled(c)
  \/ \E c \in Captures, ok \in BOOLEAN : AudioDecoded(c, ok)
  \/ \E c \in Captures, text \in OcrTexts : OcrFulfilled(c, text)
  \/ \E c \in Captures : OcrRejected(c)
  \/ \E up \in BOOLEAN : NetworkChanged(up)
  \/ Rerender

SpecFlow == InitCapture /\ [][NextFlow]_vars

\* a step of a capture in flight: a timer of the stabilizer fires, or the
\* call the capture is waiting for settles
CaptureStep ==
  \/ \E c \in Captures : Sample(c, 0, ThrottledDelay)
  \/ \E c \in Captures : LockHeld(c)
  \/ \E c \in Captures : AfterStabilized(c)
  \/ \E c \in Captures, text \in RemoteTexts : DescribeFulfilled(c, text)
  \/ \E c \in Captures : RemoteRejected(c)
  \/ \E c \in Captures : RemoteDelayElapsed(c)
  \/ \E c \in Captures : SpeechFulfilled(c)
  \/ \E c \in Captures, ok \in BOOLEAN : AudioDecoded(c, ok)
  \/ \E c \in Captures, text \in OcrTexts : OcrFulfilled(c, text)
  \/ \E c \in Captures : OcrRejected(c)

\* the flow, one capture at a time, with the user leaving the tab
NextLeave ==
  \/ NextFlow
  \/ Unmount

\* the same with every pending timer firing and every awaited call settling
SpecLeaveFair ==
  /\ InitCapture
  /\ [][NextLeave]_vars
  /\ WF_vars(CaptureStep)

\* the voice commands: the capture flow, one capture at a time, in a browser
\* with SpeechRecognition; recognizers end by themselves or after a stop()
InitVoice ==
  /\ InitHearing(DefaultSpeechRate2)
  /\ RetryIdle
  /\ \E up \in BOOLEAN : VisualMounted(up, TRUE)
  /\ voice = RecognitionMounted
  /\ RestIdle

NextVoice ==
  \/ Request(MaxFlowCaptures, "read", 0)
  \/ \E c \in Captures : Sample(c, 0, ThrottledDelay)
  \/ \E c \in Captures : LockHeld(c)
  \/ \E c \in Captures : AfterStabilized(c)
  \/ \E c \in Captures, text \in RemoteTexts : DescribeFulfilled(c, text)
  \/ \E c \in Captures : RemoteRejected(c)
  \/ \E c \in Captures : RemoteDelayElapsed(c)
  \/ \E c \in Captures : SpeechFulfilled(c)
  \/ \E c \in Captures, ok \in BOOLEAN : AudioDecoded(c, ok)
  \/ \E c \in Captures, text \in OcrTexts : OcrFulfilled(c, text)
  \/ \E c \in Captures : OcrRejected(c)
  \/ Rerender
  \/ Unmount
  \/ \E r \in DOMAIN voice.recs : RecognitionEnded(r)

SpecVoice == InitVoice /\ [][NextVoice]_vars

\* Assistant: typing, attaching, sending, and the remote calls settling
InitAssistant ==
  /\ InitHearing(DefaultSpeechRate2)
  /\ RetryIdle
  /\ VisualIdle
  /\ RestIdle

NextAssistant ==
  \/ \E text \in AssistantInputs : SetInput(text)
  \/ HandleFileUpload
  \/ ToggleMaps
  \/ OnSend
  \/ \E i \in 1..MaxSends : GeoResolved(i)
  \/ \E i \in 1..MaxSends : GeoRejected(i)
  \/ \E i \in 1..MaxSends, text \in Replies : ChatFulfilled(i, text)
  \/ \E i \in 1..MaxSends : ChatRejected(i)

SpecAssistant == InitAssistant /\ [][NextAssistant]_vars

\* a KalmanFilter over positive noises and sequences of measurements
InitFilter ==
  /\ InitHearing(DefaultSpeechRate2)
  /\ RetryIdle
  /\ VisualIdle
  /\ AssistantIdle
  /\ \E q \in FilterQs, r \in FilterRs : kalman = NewKalmanFilter(q, r)
  /\ PcmIdle
  /\ acq = NoAcquisitions

NextFilter == \E measurement \in Measurements : Filter(measurement)

SpecFilter == InitFilter /\ [][NextFilter]_vars

\* one sample through the encoder and the decoder
InitPcm ==
  /\ InitHearing(DefaultSpeechRate2)
  /\ RetryIdle
  /\ VisualIdle
  /\ AssistantIdle
  /\ KalmanIdle
  /\ \E x \in Samples : pcm = [pc |-> "sample", x |-> x, int16 |-> 0]
  /\ acq = NoAcquisitions

NextPcm ==
  \/ \E rounding \in Roundings : Encode(rounding)
  \/ Decode

SpecPcm == InitPcm /\ [][NextPcm]_vars

(* ------------------------- playback scheduler -------------------------- *)
\* C1: within one gapless run (the sources started since the cursor was last
\* reset), start times are non-decreasing in scheduling order and every
\* source starts no earlier than the previous source's start plus its
\* duration / playback rate.
C1_NoOverlap ==
  \A i \in 2..Len(started) :
    /\ started[i].start >= started[i - 1].start
    /\ started[i].start >= started[i - 1].start + started[i - 1].eff

\* two chunks scheduled in one run, the second after the clock had advanced
C1_Witness ==
  /\ Len(started) >= 2
  /\ started[2].clockAtStart > started[1].clockAtStart

\* C2: a chunk delivered to onmessage before another one is started at a
\* start time no later than the other's, whatever the order of the decodes.
C2_ArrivalOrder ==
  \A i, j \in 1..Len(started) :
    started[i].id < started[j].id => started[i].start <= started[j].start

\* C3: when source.start(t) is issued, t is at or after the output clock of
\* the context the source belongs to.
C3_NeverInPast ==
  \A i \in 1..Len(started) :
    started[i].sameCtx => started[i].start >= started[i].clockAtStart

\* C4: right after a message with serverContent.interrupted has been handled,
\* the live-sources set is empty and nextStartTimeRef is 0.
C4_InterruptResets ==
  obs.interrupted => (sources = {} /\ nextStartTime = 0)

\* an interruption that stopped at least one scheduled source
C4_Witness == obs.interrupted /\ obs.stopped >= 1

\* C5: a chunk that arrived after an interruption is started at or after the
\* output clock at the moment of its start.
C5_AfterInterruptAtClock ==
  \A i \in 1..Len(started) :
    (started[i].afterInt /\ started[i].sameCtx)
      => started[i].start >= started[i].clockAtStart

\* C27: nextStartTimeRef decreases only in a step that handles an
\* interruption or runs stopSession, and such a step leaves it at 0; a step
\* that schedules a chunk without an interruption advances it by exactly the
\* chunk's duration / playback rate.
C27_CursorMonotone ==
  [][/\ nextStartTime' < nextStartTime
          => (nextStartTime' = 0 /\ (obs'.interrupted \/ obs'.stops >= 1))
     /\ \A p \in pending :
          (pending' = pending \ {p} /\ Len(started') = Len(started) + 1)
            => (nextStartTime' - nextStartTime) * speechRate2 = 2 * p.dur]_vars

\* two chunks scheduled back to back at a rate other than 1: the cursor is
\* at the end of the second
C27_Witness ==
  /\ Len(started) = 2
  /\ speechRate2 # 2
  /\ started[2].start = started[1].start + started[1].eff
  /\ nextStartTime = started[2].start + started[2].eff
  /\ nextStartTime > 0

(* -------------------------- turn accumulator --------------------------- *)
\* the entries a turn-complete is to append for the turn buffers bi, bo
BufferEntries(bi, bo) ==
  SelectSeq(<< [text |-> bi, speaker |-> "user"],
               [text |-> bo, speaker |-> "model"] >>,
            LAMBDA t : Trim(t.text) # <<>>)

\* C6: a turn-complete appends to the log the non-blank entries that carry
\* the captured and the produced text accumulated since the previous
\* turn-complete (the buffers, plus the fragments of the completing message).
C6_FlushCarriesFragments ==
  [][obs'.turn =>
       \E fi, fo \in Frags :
         transcript' = transcript \o
            BufferEntries(currentInput \o fi, currentOutput \o fo)]_vars

\* C7: no entry of the transcript log has an empty trimmed text.
C7_NoBlankEntries ==
  \A i \in 1..Len(transcript) : Trim(transcript[i].text) # <<>>

\* a turn-complete whose captured entry was kept and whose produced entry,
\* blank, was dropped
C7_Witness ==
  /\ obs.turn
  /\ Trim(sess[obs.by].capIn) # <<>>
  /\ sess[obs.by].capOut # <<>>
  /\ Trim(sess[obs.by].capOut) = <<>>
  /\ transcript # <<>>
  /\ transcript[Len(transcript)] = [text |-> sess[obs.by].capIn, speaker |-> "user"]

\* C8: a turn-complete that appends two entries leaves the log as it was and
\* appends the captured entry immediately before the produced entry.
C8_CapturedBeforeProduced ==
  [][(obs'.turn /\ Len(transcript') = Len(transcript) + 2) =>
       /\ SubSeq(transcript', 1, Len(transcript)) = transcript
       /\ transcript'[Len(transcript) + 1].speaker = "user"
       /\ transcript'[Len(transcript) + 2].speaker = "model"]_vars

\* a turn-complete that appended both entries
C8_Witness ==
  /\ obs.turn
  /\ Trim(sess[obs.by].capIn) # <<>>
  /\ Trim(sess[obs.by].capOut) # <<>>
  /\ Len(transcript) >= 2
  /\ SubSeq(transcript, Len(transcript) - 1, Len(transcript)) = TurnEntries(obs.by)

\* log a is the beginning of log b
IsPrefix(a, b) == Len(a) <= Len(b) /\ SubSeq(b, 1, Len(a)) = a

\* C29: every step other than the user's clear-history leaves the entries of
\* the transcript log in place and in order: the log before the step is a
\* prefix of the log after it, whether the step handles a fragment, a
\* turn-complete or an interruption, or stops the session.
C29_LogAppendOnly ==
  [][IsPrefix(transcript, transcript') \/ ClearHistory]_vars

\* a turn-complete that appended its two entries behind the two of an
\* earlier turn
C29_Witness ==
  /\ obs.turn
  /\ Len(transcript) = 4
  /\ SubSeq(transcript, 3, 4) = TurnEntries(obs.by)

(* ------------------------------ retryTask ------------------------------ *)
RetrySettled == rPc \in {"returned", "thrown"}

\* C9: a task that fails failN times and then succeeds, under a budget
\* maxRetries >= failN, is invoked at most failN + 1 times, and retryTask
\* settles by returning the value of invocation failN + 1.
C9_SucceedsWithinBudget ==
  failN <= maxRetries =>
    /\ invocations <= failN + 1
    /\ RetrySettled =>
         /\ rPc = "returned"
         /\ rOutcome = [kind |-> "value", of |-> failN + 1]
         /\ invocations = failN + 1

\* a return after a number of failures equal to the whole budget
C9_Witness ==
  /\ rPc = "returned"
  /\ failN >= 1
  /\ failN = maxRetries

\* C10: under a budget maxRetries < failN the task is invoked at most
\* maxRetries + 1 times, and retryTask settles by rejecting with the error of
\* invocation maxRetries + 1 (3 invocations with the default budget).
C10_PropagatesLastFailure ==
  failN > maxRetries =>
    /\ invocations <= maxRetries + 1
    /\ RetrySettled =>
         /\ rPc = "thrown"
         /\ rOutcome = [kind |-> "error", of |-> maxRetries + 1]
         /\ invocations = maxRetries + 1
         /\ (maxRetries = DefaultMaxRetries => invocations = 3)

\* the default budget exhausted: the third failure is rethrown
C10_Witness ==
  /\ rPc = "thrown"
  /\ maxRetries = DefaultMaxRetries
  /\ rOutcome = [kind |-> "error", of |-> 3]

\* C11: the attempts of retryTask are sequential and separated by exactly one
\* delay: an attempt is started only from the loop head, with as many delays
\* elapsed as attempts have failed before it; while a delay is pending no
\* attempt runs; and the final failure is rethrown with no delay after it.
C11_OneDelayBetweenAttempts ==
  /\ rPc \in {"task", "delay", "returned", "thrown"} /\ invocations >= 1
       => delaysWaited = invocations - 1
  /\ rPc = "loop" => delaysWaited = invocations
  /\ rPc = "delay" => ~TaskSucceedsAt(invocations)
  /\ rPc = "task" => \A i \in 1..(invocations - 1) : ~TaskSucceedsAt(i)

\* three failed attempts under the default budget: two delays, none after
\* the last failure
C11_Witness ==
  /\ rPc = "thrown"
  /\ maxRetries = DefaultMaxRetries
  /\ invocations = 3
  /\ delaysWaited = 2

(* -------------------------- capture stabilizer ------------------------- *)
\* C12: whenever getStabilizedFrame resolves, by lock or by timeout, the
\* frame it resolves with is not the empty string.
C12_ResolvesNonEmpty ==
  \A c \in DOMAIN cap : cap[c].pc = "stabilized" => cap[c].frame # 0

\* C13: with the timers firing, every stabilization attempt that has started
\* eventually resolves.
C13_EveryAttemptResolves ==
  \A c \in Captures :
    (c \in DOMAIN cap /\ cap[c].pc = "sampling")
      ~> (c \in DOMAIN cap /\ cap[c].pc = "stabilized")

\* C14: an attempt that locks before MAX_DURATION has had no sample at or
\* below the lock stability during the LockAfter ms before the lock.
C14_LockNeedsSettledWindow ==
  \A c \in DOMAIN cap :
    (cap[c].pc \in {"holding", "stabilized"} /\ cap[c].elapsed < MAX_DURATION)
      => (cap[c].lastBelow = -1
          \/ cap[c].elapsed - cap[c].lastBelow >= LockAfter)

\* C28: after every sample of an attempt the recorded candidate is the frame
\* grabbed at the earliest sample that had the lowest FilteredMotion so far,
\* and the recorded minimum is that FilteredMotion; the attempt resolves
\* with the candidate of its last sample.
C28_CandidateIsLowestMotion ==
  \A c \in DOMAIN cap :
    /\ cap[c].n >= 1 => (cap[c].best = cap[c].lowFrame
                          /\ cap[c].minF = cap[c].lowF)
    /\ cap[c].pc = "stabilized" => cap[c].frame = cap[c].best

\* C38: the first sample of an attempt has MotionScore 0 and FilteredMotion
\* 0, and no sample has a FilteredMotion below 0; so when the frame grabbed
\* at the first sample is not empty, the candidate stays that frame after
\* every sample, and the attempt resolves with it.
C38_FirstFrameWins ==
  \A c \in DOMAIN cap :
    /\ cap[c].n = 1 => (cap[c].raw = 0 /\ cap[c].kx = 0)
    /\ cap[c].n >= 1 => cap[c].kx >= 0
    /\ (cap[c].n >= 1 /\ cap[c].first # 0) => cap[c].best = cap[c].first
    /\ (cap[c].pc = "stabilized" /\ cap[c].first # 0)
         => cap[c].frame = cap[c].first

\* an attempt resolved with its first frame after a later sample of a still
\* scene, whose FilteredMotion equals the minimum, with the camera stopped
C38_Witness ==
  \E c \in DOMAIN cap :
    /\ cap[c].pc = "stabilized"
    /\ cap[c].n >= 2
    /\ cap[c].kx = 0
    /\ cap[c].frame = 1
    /\ ~cameraOn

\* the latest sample of capture c met the lock condition
Locked(c) ==
  /\ Stability(cap[c].kx) > LockStability * StabilityUnit
  /\ cap[c].elapsed > LockAfter

\* C30: StabilityLevel is within [0, 100] in every state, and after a sample
\* of the attempt in flight that did not lock it is the clamped
\* 100 - FilteredMotion / STABILITY_THRESHOLD * 100 of that sample.
C30_StabilityIsDerived ==
  /\ stabilityLevel >= 0
  /\ stabilityLevel <= 100 * StabilityUnit
  /\ \A c \in DOMAIN cap :
       (cap[c].pc \in {"sampling", "holding"} /\ ~Locked(c))
         => stabilityLevel = Stability(cap[c].kx)

\* C31: within one stabilization attempt at most one checkMotion timer is
\* set at any time (a run of checkMotion sets the next one only at its end,
\* after the one that called it has fired), and no timer is set once the
\* attempt has decided to resolve or has returned early.
C31_SamplesSequential ==
  \A c \in DOMAIN cap :
    /\ cap[c].ticks <= 1
    /\ cap[c].pc # "sampling" => cap[c].ticks = 0

\* an attempt that decided to resolve at a sample run by its timer
C31_Witness ==
  \E c \in DOMAIN cap :
    cap[c].pc = "holding" /\ cap[c].n >= 2 /\ cap[c].ticks = 0

(* --------------------------- end of a capture -------------------------- *)
\* C39: with the timers firing and the awaited calls settling, every
\* accepted capture request is followed by a state in which the capture is
\* over and isStabilizing is false, isProcessing is false and stabilityLevel
\* is 0.
C39_EveryCaptureEnds ==
  (Len(cap) > 0)
    ~> (Len(cap) = 0 /\ ~isStabilizing /\ ~isProcessing /\ stabilityLevel = 0)

(* ------------------------- remote description -------------------------- *)
\* the finished capture had its describeImage call succeed: it ended on the
\* remote path, or it fell back from the speech synthesis or from the decode
Described ==
  \/ lastCapture.path = "remote"
  \/ lastCapture.path = "fallback" /\ lastCapture.why \in {"speech", "decode"}

\* C37: when a capture whose describeImage call succeeded has finished, the
\* result text shown is the remote description, whether or not the speech
\* synthesis, the audio decode and the playback that follow succeeded.
C37_DescriptionKept ==
  Described => resultText \in RemoteTexts

(* ------------------------ chunks and interruptions --------------------- *)
\* C34: once an interruption has been handled, every source that is started
\* afterwards, and so every source of the live set, plays a chunk whose
\* message arrived after an interruption: a chunk that arrived before it and
\* is decoded after it is dropped.
C34_OnlyLaterChunksPlay ==
  \A i \in DOMAIN started : everInterrupted => started[i].afterInt

(* -------------------------- microphone frames -------------------------- *)
\* C36: no sendRealtimeInput call is made for a microphone frame after
\* stopSession has run, a frame that was under way when it ran included.
C36_NoFrameAfterStop ==
  frames.last.by # 0 => ~frames.last.afterStop

(* ------------------------------- devices ------------------------------- *)
\* the sessions that are connecting or open
LiveSessions == { s \in Sessions : sess[s].status \in {"connecting", "open"} }

\* C35: at most one session is connecting or open at any time; a
\* toggleListening made while a session is connecting or open starts no
\* second one.
C35_SingleLiveSession ==
  Cardinality(LiveSessions) <= 1

\* C33: every getUserMedia call for the camera or for the microphone is the
\* one call of a request by the user (the mount included); and after a
\* rejection that left the device unavailable with no other call under way,
\* the camera is not ready and has no call pending, the microphone is not
\* listening, until the user requests the device again.
C33_NoSilentRetry ==
  /\ acq.camAttempts = acq.camRequests
  /\ acq.micAttempts = acq.micRequests
  /\ acq.camFailed => (~isCameraReady /\ acq.camPending = 0)
  /\ acq.micFailed => ~isListening

\* both devices denied, the microphone after a session that had started
C33_Witness ==
  /\ acq.camFailed
  /\ acq.micFailed
  /\ NumStarted >= 1

(* ---------------------------- voice commands --------------------------- *)
\* C32: a recognizer whose `end` event comes while no capture is stabilizing
\* or processing is started again, one whose `end` event comes while a
\* capture is stabilizing or processing is not, and then no recognizer is
\* listening; at most one recognizer is listening in every state.
C32_RestartsOnlyWhenIdle ==
  /\ Cardinality(Listening(voice.recs)) <= 1
  /\ voice.last.by # 0 => (voice.last.restarted <=> ~voice.last.busy)
  /\ (voice.last.by # 0 /\ voice.last.busy) => voice.last.listening = 0

(* ----------------------------- capture flow ---------------------------- *)
\* C15: at most one capture is in flight (stabilizing or processing) at any
\* time, whatever the timing of the requests and of the renders.
C15_SingleCaptureInFlight ==
  Len(cap) <= 1

\* C16: a capture requested while isOnline is false, and during which the
\* network has not come back, does not take the remote path: no describeImage
\* or generateSpeech call, no fallback from one.
C16_NoRemoteCallWhenDown ==
  \A c \in DOMAIN cap :
    cap[c].offline => cap[c].path \in {"none", "offline"}

\* C17: a capture that took the remote path and fell back because retryTask
\* rethrew has made DefaultMaxRetries + 1 attempts of the failing call; when
\* the local OCR of such a capture has succeeded, the shown result is the OCR
\* text behind the fallback tag and the device speaks it.
C17_FallbackTagged ==
  /\ \A c \in DOMAIN cap :
       (cap[c].path = "fallback" /\ cap[c].why \in {"describe", "speech"})
         => (cap[c].online /\ cap[c].att = DefaultMaxRetries)
  /\ (lastCapture.path = "fallback" /\ lastCapture.why \in {"describe", "speech"}
        /\ lastCapture.ocr)
       => /\ \E text \in OcrTexts :
               resultText = <<FallbackTag>> \o OfflineText(text)
          /\ speech = "local"

\* a summarize capture whose describeImage failed three times, ended by the
\* local OCR
C17_Witness ==
  /\ lastCapture = [path |-> "fallback", why |-> "describe",
                     mode |-> "summarize", ocr |-> TRUE]
  /\ resultText = <<FallbackTag, "T">>
  /\ ~isProcessing

\* C18: when the shown result is the local OCR text of a summarize or explain
\* capture, taken offline or online after retryTask rethrew, it carries the
\* basic-reading-only label.
C18_RicherModesLabeled ==
  (/\ lastCapture.ocr
   /\ lastCapture.mode # "read"
   /\ \/ lastCapture.path = "offline"
      \/ lastCapture.path = "fallback" /\ lastCapture.why \in {"describe", "speech"})
    => (resultText # <<>> /\ resultText[1] = BasicReadingLabel)

(* ----------------------------- stopSession ----------------------------- *)
\* a stop has run and no session has been started since: every session that
\* was started is closing or closed
AllStopped ==
  /\ NumStarted > 0
  /\ \A s \in Sessions : sess[s].status \in {"none", "closing", "closed"}

\* C19: from a stopSession until the next session is started, no source is
\* started or registered: the live set is empty, the run is empty and the
\* cursor is 0, also when a chunk was being decoded at the stop.
C19_NothingPlaysAfterStop ==
  AllStopped => (sources = {} /\ started = <<>> /\ nextStartTime = 0)

Exited(s) ==
  \/ sess[s].status \in {"closing", "closed", "failed"}
  \/ sess[s].status # "none" /\ ~hearingMounted

\* C21: once the session of a startSession is over, by user stop, session
\* error, session close, teardown of the component or a failed start, the
\* microphone stream, the processing node and the two audio contexts that
\* this startSession acquired are released.
C21_ReleasedOnEveryExit ==
  \A s \in Sessions :
    Exited(s) => /\ dev[s].stream # "live"
                 /\ dev[s].node # "connected"
                 /\ s = outCtx => ctxClosed

\* C22: right after the handling of an inbound chunk has failed, in its
\* decoding or in a playback device operation, while its session is open,
\* the teardown has been done: the session is no longer open, the live set
\* is empty, the cursor is 0, the contexts are closed and the processing
\* node is disconnected.
C22_FaultTearsDown ==
  (obs.failed /\ sess[obs.by].status = "open")
    => /\ sources = {}
       /\ nextStartTime = 0
       /\ ctxClosed
       /\ dev[obs.by].node # "connected"

(* ------------------------------ Assistant ------------------------------ *)
\* C23: an onSend call that finds the input empty and no file attached
\* appends no message, leaves isSending as it was, makes no remote call
\* (geolocation, chatWithGemini) and starts no send.
C23_EmptySendRejected ==
  [][(assistant'.obs.called /\ assistant'.obs.input = <<>>
        /\ ~assistant'.obs.file)
       => /\ assistant'.messages = assistant.messages
          /\ assistant'.isSending = assistant.isSending
          /\ assistant'.remoteCalls = assistant.remoteCalls
          /\ assistant'.sends = assistant.sends
          /\ assistant'.accepted = assistant.accepted]_vars

\* an onSend on the emptied input after the send before it has settled
C23_Witness ==
  /\ assistant.obs = [called |-> TRUE, input |-> <<>>, file |-> FALSE]
  /\ assistant.accepted >= 1
  /\ assistant.sends = <<>>
  /\ ~assistant.isSending

(* ----------------------------- KalmanFilter ---------------------------- *)
\* x lies between a and b, ends included
FracBetween(x, a, b) ==
  \/ FracLeq(a, x) /\ FracLeq(x, b)
  \/ FracLeq(b, x) /\ FracLeq(x, a)

\* C24: after every filter(measurement) call, for positive q and r and any
\* measurements, the gain the call used is strictly between 0 and 1 and the
\* estimate it returned lies between the estimate before the call and the
\* measurement, ends included.
C24_GainAndEstimateBounded ==
  kalman.calls >= 1 =>
    /\ FracLess(Zero, kalman.k)
    /\ FracLess(kalman.k, One)
    /\ FracBetween(kalman.x, kalman.was, kalman.measurement)

\* a second call whose measurement is below the estimate of the first
C24_Witness ==
  /\ kalman.calls = 2
  /\ FracLess(kalman.measurement, kalman.was)
  /\ FracLess(kalman.measurement, kalman.x)
  /\ FracLess(kalman.x, kalman.was)

(* ----------------------------- motion score ---------------------------- *)
\* C25 as stated: a sample whose frame is identical to the one before has
\* MotionScore 0 and a FilteredMotion strictly below the one before it.
C25_StrictlyDecreases ==
  \A c \in DOMAIN cap :
    cap[c].same => (cap[c].raw = 0 /\ cap[c].kx < cap[c].wasF)

\* C25: a sample whose frame is identical to the one before has MotionScore
\* 0 and a FilteredMotion not above the one before it: strictly below it
\* when that one was positive, and 0 when it was 0.
C25_DecreasesWhilePositive ==
  \A c \in DOMAIN cap :
    cap[c].same =>
      /\ cap[c].raw = 0
      /\ cap[c].wasF > 0 => (cap[c].kx < cap[c].wasF /\ cap[c].kx >= 0)
      /\ cap[c].wasF = 0 => cap[c].kx = 0

\* a still frame after a moving one: two identical samples in a row after
\* the scene changed, the filtered motion positive and falling
C25_Witness ==
  \E c \in DOMAIN cap :
    /\ cap[c].n >= 3
    /\ cap[c].same
    /\ cap[c].prev # 0
    /\ cap[c].wasF > 0
    /\ cap[c].kx > 0
    /\ cap[c].kx < cap[c].wasF

(* ------------------------------ PCM codec ------------------------------ *)
\* C26: a sample x in [-1, 1] that has been encoded and decoded is within
\* one quantization step, 1 / 32768, of x.
C26_RoundTripWithinOneStep ==
  (pcm.pc = "decoded" /\ pcm.x >= -SampleGrid /\ pcm.x <= SampleGrid)
    => Abs(pcm.x * PcmDivisor - pcm.int16 * SampleGrid) <= SampleGrid

====
